---- MODULE Spec2Model ----
(***************************************************************************)
(* Bombandak front-end: the client-side aggregation and caching layer.     *)
(*                                                                         *)
(* The components share no state with each other except through the       *)
(* shared data provider, so each is explored by a specification of its     *)
(* own over the variables it owns:                                         *)
(*   SpecProvider     NFTDataProvider (NFTDataContext.tsx)                 *)
(*   SpecLeaderboard  Leaderboard with the per-token cache (part_003)      *)
(*   SpecCollection   ViewMyNFTs over a published nftData                  *)
(*   SpecTransfer     TransferModal.tsx and the transfer write             *)
(*   SpecStats        GlobalStats with its refresh interval                *)
(*   SpecRanking      the leaderboard tabs of every Leaderboard variant    *)
(*   SpecWrites       a sent write beside the provider's time cache        *)
(*   SpecProviderLive   the provider under fair scheduling of its reads    *)
(*   SpecProviderAbort  the provider with a pass that ends in its catch    *)
(*   SpecActions      the owner panel and mint button handlers             *)
(*   SpecPacing       the delays of the sequential read loops              *)
(* The variables of the other components stay as before their first        *)
(* render.  Time is a clock of ticks of TickMs milliseconds; Date.now() is *)
(* now * TickMs.  A falsy timestamp (null or 0) is 0.                      *)
(***************************************************************************)
EXTENDS Integers, Sequences, FiniteSets, TLC

\* ------------------------------------------------------------------ bounds
MaxSupply == 3
MaxElapsed == 5
MaxPasses == 2
MaxForce == 1
MaxLeaderboardPasses == 2
MaxManual == 1
MaxLeaderboardSupply == 2
MaxLeaderboardElapsed == 3
Epoch == 10
MaxWrites == 2
MaxStatsPasses == 3
MaxStatsSupply == 2
MaxStatsElapsed == 2
MaxRanked == 6
MaxWritesSupply == 2
MaxWritesElapsed == 3
MaxLiveSupply == 2
MaxLiveElapsed == 1
MaxActionCalls == 2
MaxPaced == 3

TickMs == 40 * 1000

VARIABLES
  now,                 \* the clock, in ticks
  chain,               \* the contract's per-token state
  totalSupply,         \* useReadContract(getTotalSupply).data, 0 = undefined
  nftData,             \* NFTDataProvider: published records
  lastRefresh,         \* NFTDataProvider: Date.now() of the last publish, 0 = null
  forceRefreshCounter, \* NFTDataProvider
  isLoadingNFTs,       \* NFTDataProvider
  passes,              \* NFTDataProvider: fetchAllNFTData calls in flight
  continuations,       \* NFTDataProvider: forceRefresh calls suspended at their first await
  passSeq,             \* NFTDataProvider: number of passes started so far
  published,           \* NFTDataProvider: what the pass that set nftData had read
  isLoadingRewardPool, \* NFTDataProvider: useReadContract(getRewardPoolBalance).isLoading
  leaderboard,         \* Leaderboard: published entries
  isLoading,           \* Leaderboard
  leaderboardLastRefresh, \* Leaderboard: lastRefresh, the start time of the last published pass
  leaderboardCache,    \* Leaderboard: the module's Map, token id -> {data, timestamp}
  leaderboardPasses,   \* Leaderboard: fetchLeaderboardData calls in flight
  leaderboardPassSeq,  \* Leaderboard: number of passes started so far
  leaderboardLog,      \* Leaderboard: what the last lookup, pass and refresh did
  address,             \* ViewMyNFTs: useAccount().address, "" when no wallet is connected
  isOpen,              \* ViewMyNFTs
  userNFTs,            \* ViewMyNFTs
  lastOwnershipCheck,  \* ViewMyNFTs: 0 = null
  isLoadingOwnership,  \* ViewMyNFTs
  ownershipChecks,     \* ViewMyNFTs: checkUserNFTs calls waiting for their ownerOf reads
  resolved,            \* ViewMyNFTs: which strategy set userNFTs, and for which address
  toAddress,           \* TransferModal: the recipient field
  error,               \* TransferModal: which message the error state holds, "" = none
  txStatus,            \* TransferModal
  modalNftData,        \* TransferModal: useReadContract(getNFTData).data, <<>> = undefined
  writeCalls,          \* TransferModal: the writeContract calls issued, when, and how they ended
  isTransferring,      \* TransferModal
  transferLog,         \* TransferModal: what the last handleTransfer call was given and did
  stats,               \* GlobalStats: the published statistics
  statsIsLoading,      \* GlobalStats: isLoading
  championInfo,        \* GlobalStats: useReadContract(getChampionInfo).data, <<>> = undefined
  contractBalance,     \* GlobalStats: useBalance().data.value, 0 = undefined
  statsPasses,         \* GlobalStats: calculateGlobalStats calls in flight
  statsPassSeq,        \* GlobalStats: number of passes started so far
  statsTimer,          \* GlobalStats: the render the interval's callback closes over
  statsLog,            \* GlobalStats: what the pass that set stats had resolved
  activeTab,           \* Leaderboard: the tab the rankings are derived for
  ownerError,          \* OwnerPanel: error, "" = none
  ownerSuccess,        \* OwnerPanel: success, "" = none
  mintError,           \* MintButton: error, "" = none
  actionCalls,         \* the writes of the owner and mint buttons, and how they ended
  pacing               \* processNFTsSequentially: the loop's position, clock and reads

providerVars == <<nftData, lastRefresh, forceRefreshCounter, isLoadingNFTs,
                  passes, continuations, passSeq, published, isLoadingRewardPool>>
leaderboardVars == <<leaderboard, isLoading, leaderboardLastRefresh, leaderboardCache,
                     leaderboardPasses, leaderboardPassSeq, leaderboardLog>>
collectionVars == <<address, isOpen, userNFTs, lastOwnershipCheck, isLoadingOwnership,
                    ownershipChecks, resolved>>
transferVars == <<toAddress, error, txStatus, modalNftData, writeCalls, isTransferring,
                  transferLog>>
\* the components explored by the later specifications
statsVars == <<stats, statsIsLoading, championInfo, contractBalance, statsPasses,
               statsPassSeq, statsTimer, statsLog>>
rankingVars == <<activeTab>>
actionVars == <<ownerError, ownerSuccess, mintError, actionCalls>>
pacingVars == <<pacing>>
otherVars == <<transferVars, statsVars, rankingVars, actionVars, pacingVars>>
vars == <<now, chain, totalSupply, providerVars, leaderboardVars, collectionVars, otherVars>>

\* ------------------------------------------------------------------- clock
NowMs == now * TickMs
NowSec == NowMs \div 1000

\* time passes, up to limit ticks after the start
Tick(limit) ==
  /\ now < Epoch + limit
  /\ now' = now + 1

\* ---------------------------------------------------------------- contract
Tokens == 1..MaxSupply

toLowerCase(s) == IF s = "0xA" THEN "0xa" ELSE s

\* what the contract reports for a token: getNFTData(tokenId), the mintTime of
\* nftData(tokenId), and ownerOf(tokenId), "" when ownerOf reverts (burned)
Raw(a, d, tl, tc, exp, mint, hist, owner) ==
  [isAlive |-> a, isDead |-> d, timeLeft |-> tl, transferCount |-> tc,
   expiryTime |-> exp, mintTime |-> mint, ownerHistory |-> hist, owner |-> owner]

Ticking500 == Raw(TRUE, FALSE, 500, 1, 900, 100, <<"0xb", "0xA">>, "0xA")
Ticking1500 == Raw(TRUE, FALSE, 1500, 2, 1900, 200, <<"0xa", "0xb">>, "0xb")
Expired == Raw(TRUE, FALSE, 0, 0, 300, 100, <<"0xa">>, "0xa")
Exploded == Raw(FALSE, TRUE, 0, 1, 0, 100, <<"0xb", "0xa">>, "")
Lagging == Raw(TRUE, TRUE, 500, 1, 900, 100, <<"0xb">>, "0xb")
Unrecorded == Raw(TRUE, FALSE, 500, 0, 900, 100, <<>>, "0xa")

\* the reconciled liveness predicate over the contract's raw values
EffectiveAlive(r) == r.isAlive /\ ~r.isDead /\ r.timeLeft > 0

\* ------------------------------------------- the components before their first render
NoLookup == {}

NoRead == [ok |-> FALSE, stored |-> FALSE, missAge |-> -1]

NoPublish ==
  [total |-> 0, failed |-> {}, attempted |-> {}, reads |-> 0, forced |-> FALSE,
   servedOld |-> {}, warm |-> FALSE, same |-> FALSE, rerun |-> FALSE]

NoManual == [count |-> 0, started |-> 0, within |-> FALSE]

ProviderIdle ==
  /\ nftData = <<>>
  /\ lastRefresh = 0
  /\ forceRefreshCounter = 0
  /\ isLoadingNFTs = FALSE
  /\ passes = {}
  /\ continuations = {}
  /\ passSeq = 0
  /\ published = [id |-> 0, total |-> 0, failed |-> {}]
  /\ isLoadingRewardPool = TRUE

LeaderboardIdle ==
  /\ leaderboard = <<>>
  /\ isLoading = TRUE
  /\ leaderboardLastRefresh = 0
  /\ leaderboardCache = <<>>
  /\ leaderboardPasses = {}
  /\ leaderboardPassSeq = 0
  /\ leaderboardLog = [lookups |-> NoLookup, lastRead |-> NoRead, lastPublish |-> NoPublish,
                       lastCompleted |-> 0, earlyRead |-> FALSE, manual |-> NoManual,
                       freshRead |-> FALSE]

CollectionIdle ==
  /\ address = ""
  /\ isOpen = FALSE
  /\ userNFTs = <<>>
  /\ lastOwnershipCheck = 0
  /\ isLoadingOwnership = FALSE
  /\ ownershipChecks = {}
  /\ resolved = [by |-> "none", for |-> ""]

NoCall == [to |-> "", account |-> "", issued |-> 0, trace |-> <<>>]

TransferIdle ==
  /\ toAddress = ""
  /\ error = ""
  /\ txStatus = "idle"
  /\ modalNftData = <<>>
  /\ writeCalls = <<>>
  /\ isTransferring = FALSE
  /\ transferLog = NoCall

StatsIdle ==
  /\ stats = [totalMinted |-> 0, totalAlive |-> 0, totalDead |-> 0, totalTransfers |-> 0,
              averageLifetime |-> 0, longestLiving |-> [tokenId |-> 0, realLifetime |-> 0],
              rewardPool |-> 0]
  /\ statsIsLoading = TRUE
  /\ championInfo = <<>>
  /\ contractBalance = 0
  /\ statsPasses = {}
  /\ statsPassSeq = 0
  /\ statsTimer = [ts |-> 0, ci |-> <<>>, bal |-> 0, at |-> Epoch]
  /\ statsLog = [id |-> 0, champion |-> <<>>, resolved |-> {}]

RankingIdle == activeTab = "transfers"

ActionsIdle ==
  /\ ownerError = ""
  /\ ownerSuccess = ""
  /\ mintError = ""
  /\ actionCalls = <<>>

PacingIdle == pacing = [variant |-> "none", total |-> 0, i |-> 1, clock |-> 0, reads |-> <<>>]

OthersIdle == TransferIdle /\ StatsIdle /\ RankingIdle /\ ActionsIdle /\ PacingIdle

\* ------------------------------------------------- NFTDataContext.tsx
CACHE_DURATION == 3 * 60 * 1000

Max(a, b) == IF a >= b THEN a ELSE b

\* fetchSingleNFTData, after both reads succeeded
fetchSingleNFTData(tokenId) ==
  LET r == chain[tokenId]
      isReallyAlive == r.isAlive /\ r.timeLeft > 0
      isReallyDead == r.isDead \/ r.timeLeft <= 0 \/ ~r.isAlive
      realLifetime == IF isReallyDead THEN r.expiryTime - r.mintTime
                      ELSE IF isReallyAlive THEN NowSec - r.mintTime
                      ELSE r.expiryTime - r.mintTime
  IN [tokenId |-> tokenId,
      transferCount |-> r.transferCount,
      realLifetime |-> Max(0, realLifetime),
      timeLeft |-> r.timeLeft,
      isAlive |-> isReallyAlive,
      isDead |-> isReallyDead,
      ownerHistory |-> r.ownerHistory]

\* Array.prototype.reduce((sum, x) => sum + x, 0) over a sequence of numbers
SumOf(s) ==
  LET acc[i \in 0..Len(s)] == IF i = 0 THEN 0 ELSE acc[i - 1] + s[i]
  IN acc[Len(s)]

\* Array.prototype.filter(...).length, kept being the indices the filter keeps
CountOf(kept) == Cardinality(kept)

\* the globalStats memo; averageLifetime is the exact quotient num / den
globalStatsOf(data) ==
  LET alive == {i \in 1..Len(data) : data[i].isAlive /\ data[i].timeLeft > 0}
      dead == {i \in 1..Len(data) : data[i].isDead \/ data[i].timeLeft <= 0}
      transfers == [i \in 1..Len(data) |-> data[i].transferCount]
      lifetime == [i \in 1..Len(data) |-> data[i].realLifetime]
      totalMinted == Len(data)
  IN IF Len(data) = 0
     THEN [totalMinted |-> 0, totalAlive |-> 0, totalDead |-> 0, totalTransfers |-> 0,
           averageLifetime |-> [num |-> 0, den |-> 1]]
     ELSE [totalMinted |-> totalMinted,
           totalAlive |-> CountOf(alive),
           totalDead |-> CountOf(dead),
           totalTransfers |-> SumOf(transfers),
           averageLifetime |-> IF totalMinted > 0
                               THEN [num |-> SumOf(lifetime), den |-> totalMinted]
                               ELSE [num |-> 0, den |-> 1]]

globalStats == globalStatsOf(nftData)

\* fetchAllNFTData as closed over (ts, lr) gets past its two early returns
fetchAllStarts(ts, lr) == ts # 0 /\ ~(lr # 0 /\ NowMs - lr < CACHE_DURATION)

newPass(ts) ==
  [id |-> passSeq + 1, total |-> ts, next |-> 1, allNFTData |-> <<>>, failed |-> {},
   hung |-> FALSE]

\* the body of fetchAllNFTData up to its first await, as closed over (ts, lr)
fetchAllNFTData(ts, lr) ==
  IF ts = 0
  THEN /\ nftData' = <<>>
       /\ published' = [id |-> 0, total |-> 0, failed |-> {}]
       /\ UNCHANGED <<isLoadingNFTs, passes, passSeq>>
  ELSE IF ~fetchAllStarts(ts, lr)
  THEN UNCHANGED <<nftData, published, isLoadingNFTs, passes, passSeq>>
  ELSE /\ passSeq < MaxPasses
       /\ isLoadingNFTs' = TRUE
       /\ passSeq' = passSeq + 1
       /\ passes' = passes \cup {newPass(ts)}
       /\ UNCHANGED <<nftData, published>>

\* useEffect on [totalSupply, fetchAllNFTData], after the render of (ts, lr)
providerEffect(ts, lr) ==
  IF ts > 0
  THEN fetchAllNFTData(ts, lr)
  ELSE UNCHANGED <<nftData, published, isLoadingNFTs, passes, passSeq>>

\* one fetchSingleNFTData of the batch loop settles: a record, or null
PassStep(p, ok) ==
  /\ p \in passes
  /\ p.next <= p.total
  /\ ~p.hung
  /\ passes' = (passes \ {p}) \cup
       {[p EXCEPT !.next = p.next + 1,
                  !.allNFTData = IF ok THEN Append(p.allNFTData, fetchSingleNFTData(p.next))
                                 ELSE p.allNFTData,
                  !.failed = IF ok THEN p.failed ELSE p.failed \cup {p.next}]}
  /\ UNCHANGED <<now, chain, totalSupply, nftData, lastRefresh, forceRefreshCounter,
                 isLoadingNFTs, continuations, passSeq, published, leaderboardVars, collectionVars, otherVars>>
  /\ UNCHANGED isLoadingRewardPool

\* the loop is over: setNftData, setLastRefresh, finally setIsLoadingNFTs(false);
\* the effect of the render that follows finds lastRefresh fresh and returns
PassFinish(p) ==
  /\ p \in passes
  /\ p.next > p.total
  /\ nftData' = p.allNFTData
  /\ published' = [id |-> p.id, total |-> p.total, failed |-> p.failed]
  /\ lastRefresh' = NowMs
  /\ ~fetchAllStarts(totalSupply, lastRefresh')
  /\ isLoadingNFTs' = FALSE
  /\ passes' = passes \ {p}
  /\ UNCHANGED <<now, chain, totalSupply, forceRefreshCounter, continuations, passSeq,
                 leaderboardVars, collectionVars, otherVars>>
  /\ UNCHANGED isLoadingRewardPool

\* forceRefresh up to its first await, and the effect of the render that follows
ForceRefresh ==
  /\ forceRefreshCounter < MaxForce
  /\ forceRefreshCounter' = forceRefreshCounter + 1
  /\ lastRefresh' = 0
  /\ continuations' = continuations \cup
       {[id |-> forceRefreshCounter + 1, ts |-> totalSupply, lr |-> lastRefresh]}
  /\ providerEffect(totalSupply, 0)
  /\ UNCHANGED <<now, chain, totalSupply, leaderboardVars, collectionVars, otherVars>>
  /\ UNCHANGED isLoadingRewardPool

\* forceRefresh after the refetches: fetchAllNFTData of the render it was created in
ForceRefreshResume(c) ==
  /\ c \in continuations
  /\ continuations' = continuations \ {c}
  /\ forceRefreshCounter' = forceRefreshCounter
  /\ fetchAllNFTData(c.ts, c.lr)
  /\ UNCHANGED <<now, chain, totalSupply, lastRefresh, leaderboardVars, collectionVars, otherVars>>
  /\ UNCHANGED isLoadingRewardPool

\* the getTotalSupply hook delivers a new value, and the effect of the render that follows
LoadTotalSupply(n) ==
  /\ n > totalSupply
  /\ totalSupply' = n
  /\ forceRefreshCounter' = forceRefreshCounter
  /\ providerEffect(n, lastRefresh)
  /\ UNCHANGED <<now, chain, lastRefresh, continuations, leaderboardVars, collectionVars, otherVars>>
  /\ UNCHANGED isLoadingRewardPool

\* the getRewardPoolBalance hook delivers its first value
RewardPoolLoads ==
  /\ isLoadingRewardPool
  /\ isLoadingRewardPool' = FALSE
  /\ UNCHANGED <<nftData, lastRefresh, forceRefreshCounter, isLoadingNFTs, passes,
                 continuations, passSeq, published>>
  /\ UNCHANGED <<now, chain, totalSupply, leaderboardVars, collectionVars, otherVars>>

\* the readContract of token p.next never settles: the await in
\* fetchSingleNFTData is not raced against any timer of the component, so the
\* Promise.all of the batch stays pending.  Whether the transport under
\* readContract lets a call stay pending is decided outside these sources;
\* only SpecProviderLive takes this step.
ReadHangs(p) ==
  /\ p \in passes
  /\ p.next <= p.total
  /\ ~p.hung
  /\ passes' = (passes \ {p}) \cup {[p EXCEPT !.hung = TRUE]}
  /\ UNCHANGED <<now, chain, totalSupply, nftData, lastRefresh, forceRefreshCounter,
                 isLoadingNFTs, continuations, passSeq, published, isLoadingRewardPool,
                 leaderboardVars, collectionVars, otherVars>>

\* an abort that records the time of the abort as the last refresh
PassAbortsStamped(p) ==
  /\ p \in passes
  /\ p.next <= p.total
  /\ ~p.hung
  /\ lastRefresh' = NowMs
  /\ isLoadingNFTs' = FALSE
  /\ passes' = passes \ {p}
  /\ UNCHANGED <<now, chain, totalSupply, nftData, forceRefreshCounter, continuations,
                 passSeq, published, isLoadingRewardPool, leaderboardVars, collectionVars,
                 otherVars>>

\* the try block of fetchAllNFTData throws while a batch is pending: the catch
\* logs and the finally clears the flag; there is no second attempt at the batch
PassAborts(p) ==
  /\ p \in passes
  /\ p.next <= p.total
  /\ ~p.hung
  /\ isLoadingNFTs' = FALSE
  /\ passes' = passes \ {p}
  /\ UNCHANGED <<now, chain, totalSupply, nftData, lastRefresh, forceRefreshCounter,
                 continuations, passSeq, published, isLoadingRewardPool, leaderboardVars,
                 collectionVars, otherVars>>

\* the getTotalSupply hook has not delivered its first value
isLoadingTotalSupply == totalSupply = 0

isLoadingGlobal == isLoadingTotalSupply \/ isLoadingRewardPool \/ isLoadingNFTs

\* the contract states explored: token 1 ticking or caught between its flags,
\* token 2 out of time or burned, every later token ticking
ProviderChains ==
  {c \in [Tokens -> {Ticking500, Ticking1500, Expired, Exploded, Lagging}] :
     /\ c[1] \in {Ticking500, Lagging}
     /\ c[2] \in {Expired, Exploded}
     /\ \A t \in Tokens : t > 2 => c[t] = Ticking1500}

InitProvider ==
  /\ now = Epoch
  /\ chain \in ProviderChains
  /\ totalSupply = 0
  /\ ProviderIdle
  /\ LeaderboardIdle
  /\ CollectionIdle
  /\ OthersIdle

NextProvider ==
  \/ Tick(MaxElapsed) /\ UNCHANGED <<chain, totalSupply, providerVars, leaderboardVars, collectionVars, otherVars>>
  \/ \E n \in Tokens : LoadTotalSupply(n)
  \/ RewardPoolLoads
  \/ ForceRefresh
  \/ \E c \in continuations : ForceRefreshResume(c)
  \/ \E p \in passes, ok \in BOOLEAN : PassStep(p, ok)
  \/ \E p \in passes : PassFinish(p)

SpecProvider == InitProvider /\ [][NextProvider]_vars

\* the provider with batches that may error as a whole
NextProviderAbort ==
  \/ NextProvider
  \/ \E p \in passes : PassAborts(p)

SpecProviderAbort == InitProvider /\ [][NextProviderAbort]_vars

\* the provider with reads that may never settle; a read that does respond is
\* eventually delivered and the continuation of a settled batch eventually runs
NextProviderLive ==
  \/ Tick(MaxLiveElapsed) /\ UNCHANGED <<chain, totalSupply, providerVars, leaderboardVars, collectionVars, otherVars>>
  \/ \E n \in 1..MaxLiveSupply : LoadTotalSupply(n)
  \/ \E p \in passes, ok \in BOOLEAN : PassStep(p, ok)
  \/ \E p \in passes : PassFinish(p)
  \/ \E p \in passes : ReadHangs(p)

SpecProviderLive ==
  /\ InitProvider
  /\ [][NextProviderLive]_vars
  /\ WF_vars(\E p \in passes, ok \in BOOLEAN : PassStep(p, ok))
  /\ WF_vars(\E p \in passes : PassFinish(p))

\* --------------------------------------- part_003: Leaderboard with a cache
CACHE_DURATION_Leaderboard == 120000
MinRefreshLeaderboard == 60000
DaySeconds == 86400
TopN == 5
TopN3 == 10

Min(a, b) == IF a <= b THEN a ELSE b

Last(s) == s[Len(s)]

\* whether ownerOf(tokenId) reverts
ownerOfReverts(tokenId) == chain[tokenId].owner = ""

\* ownerOf(tokenId) where it does not revert
ownerOf(tokenId) == chain[tokenId].owner

\* processNFTsSequentially: the entry built after getNFTData returned, with
\* ownerOf read for a token found alive
leaderboardEntry(tokenId, ownerOfOk) ==
  LET r == chain[tokenId]
      alive == r.isAlive /\ ~r.isDead /\ r.timeLeft > 0
      realLifetime == IF alive
                      THEN (r.transferCount * DaySeconds) + (DaySeconds - r.timeLeft)
                      ELSE (r.transferCount + 1) * DaySeconds
      currentOwner == IF ~alive THEN ""
                      ELSE IF ownerOfOk /\ ~ownerOfReverts(tokenId) THEN ownerOf(tokenId)
                      ELSE IF Len(r.ownerHistory) > 0 THEN Last(r.ownerHistory)
                      ELSE ""
  IN [tokenId |-> tokenId,
      transferCount |-> r.transferCount,
      timeLeft |-> r.timeLeft,
      realLifetime |-> realLifetime,
      isAlive |-> r.isAlive,
      isDead |-> r.isDead,
      ownerHistory |-> r.ownerHistory,
      currentOwner |-> currentOwner]

\* a refresh that leaves the Map as it is
leaderboardCacheKept(cache) == cache

\* leaderboardCache.clear()
leaderboardCacheClear(cache) == [t \in {} |-> cache[t]]

\* leaderboardCache.set(cacheKey, {data, timestamp}); old marks an entry that
\* was in the Map when the last manual refresh was asked for
leaderboardCacheSet(cache, tokenId, data, at) ==
  [t \in DOMAIN cache \cup {tokenId} |->
     IF t = tokenId THEN [data |-> data, timestamp |-> at, old |-> FALSE] ELSE cache[t]]

\* a lookup that still serves an entry exactly CACHE_DURATION old
cacheServesInclusive(cache, tokenId, at) ==
  /\ tokenId \in DOMAIN cache
  /\ at - cache[tokenId].timestamp <= CACHE_DURATION_Leaderboard

\* a lookup that serves nothing the Map holds
cacheServesNothing(cache, tokenId, at) ==
  /\ tokenId \in DOMAIN cache
  /\ at - cache[tokenId].timestamp < 0

\* cachedData && (Date.now() - cachedData.timestamp) < CACHE_DURATION
cacheServes(cache, tokenId, at) ==
  /\ tokenId \in DOMAIN cache
  /\ at - cache[tokenId].timestamp < CACHE_DURATION_Leaderboard

\* ------------------------- GlobalStats.tsx (batched) and part_004: their caches
CACHE_DURATION_Stats == 180000
CACHE_DURATION_Leaderboard5 == 300000

\* processNFTsBatch: cachedData && (Date.now() - cachedData.timestamp) < CACHE_DURATION
statsCacheServes(cache, cacheKey, at) ==
  /\ cacheKey \in DOMAIN cache
  /\ at - cache[cacheKey].timestamp < CACHE_DURATION_Stats

\* part_004, processNFTsSequentially: the same test against its own duration
leaderboard5CacheServes(cache, cacheKey, at) ==
  /\ cacheKey \in DOMAIN cache
  /\ at - cache[cacheKey].timestamp < CACHE_DURATION_Leaderboard5

\* the first token from `from` on that the loop has to read, total + 1 if none
firstMiss(cache, from, total, at) ==
  IF \E t \in from..total : ~cacheServes(cache, t, at)
  THEN CHOOSE t \in from..total :
         /\ ~cacheServes(cache, t, at)
         /\ \A u \in from..(t - 1) : cacheServes(cache, u, at)
  ELSE total + 1

\* results.push(cachedData.data) for the tokens from..to
servedFrom(cache, from, to) == [i \in 1..(to - from + 1) |-> cache[from + i - 1].data]

\* the loop of processNFTsSequentially from token p.next up to its next await
runLoop(p, cache, at) ==
  LET k == firstMiss(cache, p.next, p.total, at)
  IN [p EXCEPT !.next = k,
               !.allNFTs = p.allNFTs \o servedFrom(cache, p.next, k - 1),
               !.reading = (k <= p.total),
               !.sleeping = (k <= p.total),
               !.attempted = p.attempted \cup (p.next..Min(k, p.total)),
               !.servedOld = p.servedOld \cup {t \in p.next..(k - 1) : cache[t].old},
               !.missAge = IF k <= p.total /\ k \in DOMAIN cache
                           THEN at - cache[k].timestamp ELSE -1]

\* the cache lookups of that loop: what each found, and whether it served it
lookupOf(p, cache, at) ==
  LET k == firstMiss(cache, p.next, p.total, at)
  IN {[cached |-> t \in DOMAIN cache,
       age |-> IF t \in DOMAIN cache THEN at - cache[t].timestamp ELSE 0,
       served |-> t < k] : t \in p.next..Min(k, p.total)}

\* the component's state as one value, to chain the calls of one step
leaderboardState ==
  [leaderboard |-> leaderboard, isLoading |-> isLoading,
   lastRefresh |-> leaderboardLastRefresh, cache |-> leaderboardCache,
   passes |-> leaderboardPasses, passSeq |-> leaderboardPassSeq,
   log |-> leaderboardLog, blocked |-> FALSE]

leaderboardSet(s) ==
  /\ ~s.blocked
  /\ leaderboard' = s.leaderboard
  /\ isLoading' = s.isLoading
  /\ leaderboardLastRefresh' = s.lastRefresh
  /\ leaderboardCache' = s.cache
  /\ leaderboardPasses' = s.passes
  /\ leaderboardPassSeq' = s.passSeq
  /\ leaderboardLog' = s.log

RECURSIVE leaderboardPublish(_, _, _)

\* fetchLeaderboardData past its guards: setIsLoading(true) and the loop up to
\* its first await, or to the end when every token is served from the cache
fetchLeaderboardStart(s, ts, forced, at) ==
  IF s.passSeq >= MaxLeaderboardPasses THEN [s EXCEPT !.blocked = TRUE]
  ELSE
    LET p0 == [id |-> s.passSeq + 1, total |-> ts, now |-> at, next |-> 1,
               allNFTs |-> <<>>, reading |-> FALSE, sleeping |-> FALSE, issued |-> <<>>,
               attempted |-> {}, failed |-> {},
               reads |-> 0, forced |-> forced, servedOld |-> {}, missAge |-> -1,
               warm |-> \A t \in 1..ts :
                          /\ t \in DOMAIN s.cache
                          /\ at - s.cache[t].timestamp < CACHE_DURATION_Leaderboard]
        p == runLoop(p0, s.cache, at)
        early == /\ ~forced
                 /\ p.reading
                 /\ s.log.lastCompleted # 0
                 /\ at - s.log.lastCompleted < MinRefreshLeaderboard
        s1 == [s EXCEPT !.isLoading = TRUE,
                        !.passSeq = s.passSeq + 1,
                        !.log.lookups = lookupOf(p0, s.cache, at),
                        !.log.earlyRead = s.log.earlyRead \/ early]
    IN IF p.reading
       THEN [s1 EXCEPT !.passes = s1.passes \cup {p}]
       ELSE leaderboardPublish(s1, p, at)

\* fetchLeaderboardData as closed over (ts, lr)
fetchLeaderboardData(s, ts, lr, forced, at) ==
  IF ts = 0 THEN s
  ELSE IF at - lr < MinRefreshLeaderboard THEN s
  ELSE fetchLeaderboardStart(s, ts, forced, at)

\* useEffect on [totalSupply, fetchLeaderboardData], after the render of s
leaderboardEffect(s, ts, forced, at) ==
  IF ts > 0 THEN fetchLeaderboardData(s, ts, s.lastRefresh, forced, at) ELSE s

\* the loop of pass p is over: setLeaderboard, setLastRefresh(now), finally
\* setIsLoading(false); a changed lastRefresh re-creates fetchLeaderboardData
\* and the effect runs again
leaderboardPublish(s, p, at) ==
  LET s1 == [s EXCEPT
               !.leaderboard = p.allNFTs,
               !.lastRefresh = p.now,
               !.isLoading = FALSE,
               !.passes = s.passes \ {p},
               !.log.lastCompleted = at,
               !.log.lastPublish =
                  [total |-> p.total, failed |-> p.failed, attempted |-> p.attempted,
                   reads |-> p.reads, forced |-> p.forced, servedOld |-> p.servedOld,
                   warm |-> p.warm, same |-> (p.allNFTs = s.leaderboard),
                   rerun |-> /\ s.log.lastPublish.total = p.total
                             /\ s.log.lastPublish.failed = {}]]
  IN IF p.now # s.lastRefresh
     THEN leaderboardEffect(s1, totalSupply, FALSE, at)
     ELSE s1

\* a loop that gives up at the first read that throws
readAbandoned(p) ==
  [p EXCEPT !.next = p.total + 1, !.reading = FALSE, !.reads = p.reads + 1,
            !.failed = p.failed \cup {p.next}]

\* a loop that tries the token again after a read that throws
readRetried(p) ==
  [p EXCEPT !.reading = FALSE, !.reads = p.reads + 1, !.failed = p.failed \cup {p.next}]

\* getNFTData threw: the catch logs, sleeps, and the loop goes on
readFailed(p) ==
  [p EXCEPT !.next = p.next + 1, !.reading = FALSE, !.reads = p.reads + 1,
            !.failed = p.failed \cup {p.next}]

\* getNFTData returned: results.push(result)
readReturned(p, data) ==
  [p EXCEPT !.next = p.next + 1, !.reading = FALSE, !.reads = p.reads + 1,
            !.allNFTs = Append(p.allNFTs, data)]

\* sleep(100) is over and getNFTData of token p.next is called; the log keeps
\* whether a pass no manual refresh asked for called it for a token whose entry
\* the Map would serve at that moment
ReadIssued(p) ==
  /\ p \in leaderboardPasses
  /\ p.reading
  /\ p.sleeping
  /\ leaderboardPasses' = (leaderboardPasses \ {p}) \cup
       {[p EXCEPT !.sleeping = FALSE, !.issued = Append(@, p.next)]}
  /\ leaderboardLog' =
       [leaderboardLog EXCEPT
          !.freshRead = @ \/ (~p.forced /\ cacheServes(leaderboardCache, p.next, NowMs))]
  /\ UNCHANGED <<leaderboard, isLoading, leaderboardLastRefresh, leaderboardCache,
                 leaderboardPassSeq>>
  /\ UNCHANGED <<now, chain, totalSupply, providerVars, collectionVars, otherVars>>

\* the read of token p.next settles: getNFTData returned (and ownerOf returned
\* or threw), or getNFTData threw; the loop then runs on to its next await
ReadSettles(p, outcome) ==
  /\ p \in leaderboardPasses
  /\ p.reading
  /\ ~p.sleeping
  /\ LET s == leaderboardState
         at == NowMs
         t == p.next
         data == leaderboardEntry(t, outcome = "ok")
         cache1 == IF outcome = "failed" THEN s.cache
                   ELSE leaderboardCacheSet(s.cache, t, data, at)
         p1 == IF outcome = "failed" THEN readFailed(p) ELSE readReturned(p, data)
         p2 == runLoop(p1, cache1, at)
         s1 == [s EXCEPT !.cache = cache1,
                         !.passes = s.passes \ {p},
                         !.log.lookups = lookupOf(p1, cache1, at),
                         !.log.lastRead =
                            [ok |-> outcome # "failed",
                             missAge |-> p.missAge,
                             stored |-> /\ t \in DOMAIN cache1
                                        /\ cache1[t].timestamp = at
                                        /\ cache1[t].data = data]]
     IN leaderboardSet(IF p2.reading
                       THEN [s1 EXCEPT !.passes = s1.passes \cup {p2}]
                       ELSE leaderboardPublish(s1, p2, at))
  /\ UNCHANGED <<now, chain, totalSupply, providerVars, collectionVars, otherVars>>

\* the Refresh button, enabled while isLoading is false: the cache is cleared,
\* lastRefresh is reset, the fetchLeaderboardData of the current render is
\* called, and the effect of the render that follows runs as lastRefresh changed
handleManualRefresh ==
  /\ ~isLoading
  /\ leaderboardLog.manual.count < MaxManual
  /\ LET s == leaderboardState
         at == NowMs
         marked == [t \in DOMAIN s.cache |-> [s.cache[t] EXCEPT !.old = TRUE]]
         s1 == [s EXCEPT !.cache = leaderboardCacheClear(marked),
                         !.lastRefresh = 0]
         s2 == fetchLeaderboardData(s1, totalSupply, s.lastRefresh, TRUE, at)
         s3 == IF s.lastRefresh # 0 THEN leaderboardEffect(s2, totalSupply, TRUE, at) ELSE s2
     IN leaderboardSet(
          [s3 EXCEPT !.log.manual =
             [count |-> s.log.manual.count + 1,
              started |-> s3.passSeq - s.passSeq,
              within |-> /\ s.log.lastCompleted # 0
                         /\ at - s.log.lastCompleted < MinRefreshLeaderboard]])
  /\ UNCHANGED <<now, chain, totalSupply, providerVars, collectionVars, otherVars>>

\* the getTotalSupply hook of the Leaderboard delivers a new value
LeaderboardTotalSupply(n) ==
  /\ n > totalSupply
  /\ totalSupply' = n
  /\ leaderboardSet(leaderboardEffect(leaderboardState, n, FALSE, NowMs))
  /\ UNCHANGED <<now, chain, providerVars, collectionVars, otherVars>>

\* the contract state explored: token 1 ticking, token 2 burned, the rest ticking
LeaderboardChains == {c \in ProviderChains : c[1] = Ticking500 /\ c[2] = Exploded}

InitLeaderboard ==
  /\ now = Epoch
  /\ chain \in LeaderboardChains
  /\ totalSupply = 0
  /\ ProviderIdle
  /\ LeaderboardIdle
  /\ CollectionIdle
  /\ OthersIdle

NextLeaderboard ==
  \/ Tick(MaxLeaderboardElapsed) /\ UNCHANGED <<chain, totalSupply, providerVars, leaderboardVars, collectionVars, otherVars>>
  \/ \E n \in 1..MaxLeaderboardSupply : LeaderboardTotalSupply(n)
  \/ \E p \in leaderboardPasses : ReadIssued(p)
  \/ \E p \in leaderboardPasses, outcome \in {"ok", "ownerOfFailed", "failed"} :
       ReadSettles(p, outcome)
  \/ handleManualRefresh

SpecLeaderboard == InitLeaderboard /\ [][NextLeaderboard]_vars

\* ------------------------------------------------------- ViewMyNFTs.tsx
OWNERSHIP_CACHE_DURATION == 30 * 1000

Addresses == {"0xa", "0xA", "0xb"}

\* Array.prototype.filter(...).map(nft => nft.tokenId), kept being the indices
\* the filter keeps
tokenIdsWhere(data, kept) ==
  LET acc[i \in 0..Len(data)] ==
        IF i = 0 THEN <<>>
        ELSE IF i \in kept THEN Append(acc[i - 1], data[i].tokenId)
        ELSE acc[i - 1]
  IN acc[Len(data)]

\* checkUserNFTsFromContext: the tokens whose last recorded owner is the address
ownedByHistory(addr) ==
  LET mine(nft) ==
        /\ Len(nft.ownerHistory) > 0
        /\ Last(nft.ownerHistory) # ""
        /\ toLowerCase(Last(nft.ownerHistory)) = toLowerCase(addr)
  IN tokenIdsWhere(nftData, {i \in 1..Len(nftData) : mine(nftData[i])})

\* checkUserNFTs: the tokens of nftData whose ownerOf read returned the address;
\* the reads of the tokens in lost threw, as an ownerOf that reverts does
ownedByOwnerOf(addr, lost) ==
  LET mine(nft) ==
        /\ nft.tokenId \notin lost
        /\ ~ownerOfReverts(nft.tokenId)
        /\ toLowerCase(ownerOf(nft.tokenId)) = toLowerCase(addr)
  IN tokenIdsWhere(nftData, {i \in 1..Len(nftData) : mine(nftData[i])})

\* checkUserNFTsFromContext as closed over addr
checkUserNFTsFromContext(addr) ==
  IF addr = "" \/ Len(nftData) = 0
  THEN /\ userNFTs' = <<>>
       /\ UNCHANGED <<lastOwnershipCheck, isLoadingOwnership, ownershipChecks, resolved>>
  ELSE /\ userNFTs' = ownedByHistory(addr)
       /\ lastOwnershipCheck' = NowMs
       /\ resolved' = [by |-> "history", for |-> addr]
       /\ UNCHANGED <<isLoadingOwnership, ownershipChecks>>

\* checkUserNFTs as closed over addr, up to its Promise.all
checkUserNFTs(addr) ==
  IF addr = "" \/ globalStats.totalMinted = 0
  THEN /\ userNFTs' = <<>>
       /\ UNCHANGED <<lastOwnershipCheck, isLoadingOwnership, ownershipChecks, resolved>>
  ELSE IF lastOwnershipCheck # 0 /\ NowMs - lastOwnershipCheck < OWNERSHIP_CACHE_DURATION
  THEN UNCHANGED <<userNFTs, lastOwnershipCheck, isLoadingOwnership, ownershipChecks,
                   resolved>>
  ELSE /\ isLoadingOwnership' = TRUE
       /\ ownershipChecks' = ownershipChecks \cup {[address |-> addr]}
       /\ UNCHANGED <<userNFTs, lastOwnershipCheck, resolved>>

\* useEffect on [isConnected, address, nftData, isOpen], after the render of
\* (open, addr)
collectionEffect(open, addr) ==
  IF open /\ Len(nftData) > 0
  THEN IF \E i \in 1..Len(nftData) : Len(nftData[i].ownerHistory) > 0
       THEN checkUserNFTsFromContext(addr)
       ELSE checkUserNFTs(addr)
  ELSE UNCHANGED <<userNFTs, lastOwnershipCheck, isLoadingOwnership, ownershipChecks,
                   resolved>>

\* the wallet connects, switches account or disconnects
AccountChanges(a) ==
  /\ a # address
  /\ address' = a
  /\ isOpen' = isOpen
  /\ collectionEffect(isOpen, a)
  /\ UNCHANGED <<now, chain, totalSupply, providerVars, leaderboardVars, otherVars>>

handleOpen ==
  /\ ~isOpen
  /\ address # ""
  /\ isOpen' = TRUE
  /\ address' = address
  /\ collectionEffect(TRUE, address)
  /\ UNCHANGED <<now, chain, totalSupply, providerVars, leaderboardVars, otherVars>>

handleClose ==
  /\ isOpen
  /\ isOpen' = FALSE
  /\ UNCHANGED <<address, userNFTs, lastOwnershipCheck, isLoadingOwnership,
                 ownershipChecks, resolved>>
  /\ UNCHANGED <<now, chain, totalSupply, providerVars, leaderboardVars, otherVars>>

\* the ownerOf reads of a checkUserNFTs call have all settled
OwnershipSettles(c, lost) ==
  /\ c \in ownershipChecks
  /\ ownershipChecks' = ownershipChecks \ {c}
  /\ userNFTs' = ownedByOwnerOf(c.address, lost)
  /\ lastOwnershipCheck' = NowMs
  /\ isLoadingOwnership' = FALSE
  /\ resolved' = [by |-> IF lost = {} THEN "ownerOf" ELSE "ownerOfLossy", for |-> c.address]
  /\ UNCHANGED <<address, isOpen>>
  /\ UNCHANGED <<now, chain, totalSupply, providerVars, leaderboardVars, otherVars>>

\* nftData as a provider pass over ts tokens publishes it when the reads of the
\* tokens in lost returned null
publishedBy(ts, lost) ==
  LET acc[i \in 0..ts] ==
        IF i = 0 THEN <<>>
        ELSE IF i \in lost THEN acc[i - 1]
        ELSE Append(acc[i - 1], fetchSingleNFTData(i))
  IN acc[ts]

\* the contract states explored: every token with a recorded history, or
\* tokens with and without one
CollectionChains ==
  [Tokens -> {Unrecorded, Ticking500}] \cup
  [Tokens -> {Ticking500, Ticking1500, Expired, Exploded}]

InitCollection ==
  /\ now = Epoch
  /\ chain \in CollectionChains
  /\ totalSupply \in Tokens
  /\ LeaderboardIdle
  /\ CollectionIdle
  /\ OthersIdle
  /\ lastRefresh = NowMs
  /\ forceRefreshCounter = 0
  /\ isLoadingNFTs = FALSE
  /\ passes = {}
  /\ continuations = {}
  /\ passSeq = 1
  /\ isLoadingRewardPool = FALSE
  /\ \E lost \in SUBSET (1..totalSupply) :
       /\ published = [id |-> 1, total |-> totalSupply, failed |-> lost]
       /\ nftData = publishedBy(totalSupply, lost)

NextCollection ==
  \/ Tick(MaxElapsed) /\ UNCHANGED <<chain, totalSupply, providerVars, leaderboardVars, collectionVars, otherVars>>
  \/ \E a \in Addresses \cup {""} : AccountChanges(a)
  \/ handleOpen
  \/ handleClose
  \/ \E c \in ownershipChecks, lost \in SUBSET Tokens : OwnershipSettles(c, lost)

SpecCollection == InitCollection /\ [][NextCollection]_vars

\* ------------------------------------------------------------ NFTCard.tsx
\* the status badge's colour class
cardBadgeTicking(r) == r.isAlive /\ r.timeLeft > 0

\* the status badge's text
cardBadgeText(r) == IF r.isAlive THEN "ALIVE" ELSE "EXPLODED"

\* whether the card offers the Transfer button
cardOffersTransfer(r) == r.isAlive

\* ------------------------------- ViewMyNFTs.tsx, Leaderboard over the provider
\* the row badge of a provider record
rowBadge(nft) == IF nft.isAlive /\ nft.timeLeft > 0 THEN "Ticking" ELSE "Exploded"

\* ------------------------------------------------------ TransferModal.tsx
\* the token the dialog was opened for
TransferTokenId == 1

\* what can be typed into the recipient field
RecipientInputs == {"", "   ", "not-an-address", "0xa", "0xA", "0xb", "0xc"}

\* String.prototype.trim
trim(s) == IF s = "   " THEN "" ELSE s

\* a validation that lets every string through
isAddressAny(s) == TRUE

\* viem isAddress: the lower-case form, or a mixed-case form with a valid checksum
isAddress(s) == s \in {"0xa", "0xA", "0xb", "0xc"}

\* ownerHistory.some(addr => addr.toLowerCase() === toAddress.toLowerCase())
hasOwnedBefore(ownerHistory, to) ==
  \E i \in 1..Len(ownerHistory) : toLowerCase(ownerHistory[i]) = toLowerCase(to)

\* useBombandak().transfer: the writeContract call it issues; warned records
\* whether the dialog's error state held the already-owned warning at the call
transfer(to, tokenId, warned) == [to |-> to, tokenId |-> tokenId, warned |-> warned]

\* the recipient field is edited; the input is disabled while isProcessing
SetToAddress(a) ==
  /\ ~isTransferring
  /\ a # toAddress
  /\ toAddress' = a
  /\ UNCHANGED <<error, txStatus, modalNftData, writeCalls, isTransferring, transferLog>>
  /\ UNCHANGED <<now, chain, totalSupply, providerVars, leaderboardVars, collectionVars,
                 statsVars, rankingVars, actionVars, pacingVars>>

\* the dialog's getNFTData hook delivers the token's data
ModalNftDataLoads ==
  /\ modalNftData = <<>>
  /\ modalNftData' = <<chain[TransferTokenId]>>
  /\ UNCHANGED <<toAddress, error, txStatus, writeCalls, isTransferring, transferLog>>
  /\ UNCHANGED <<now, chain, totalSupply, providerVars, leaderboardVars, collectionVars,
                 statsVars, rankingVars, actionVars, pacingVars>>

\* a handler that moves to confirming whatever the await did
statusAfterAny(outcome) == "confirming"

\* the status handleTransfer sets once the await of transfer() returned (sent)
\* or threw (threw)
statusAfter(outcome) == IF outcome = "sent" THEN "confirming" ELSE "failed"

\* the Transfer button of the dialog, up to the await of transfer(): the
\* states are reset, the recipient is validated, and the write is issued
handleTransfer ==
  /\ ~isTransferring
  /\ LET log == [to |-> toAddress, account |-> address, issued |-> 0, trace |-> <<"idle">>]
     IN IF trim(toAddress) = ""
        THEN /\ error' = "Please enter a recipient address"
             /\ txStatus' = "idle"
             /\ transferLog' = log
             /\ UNCHANGED <<writeCalls, isTransferring>>
        ELSE IF ~isAddress(toAddress)
        THEN /\ error' = "Invalid address format"
             /\ txStatus' = "idle"
             /\ transferLog' = log
             /\ UNCHANGED <<writeCalls, isTransferring>>
        ELSE IF address # "" /\ toLowerCase(toAddress) = toLowerCase(address)
        THEN /\ error' = "Cannot transfer to yourself"
             /\ txStatus' = "idle"
             /\ transferLog' = log
             /\ UNCHANGED <<writeCalls, isTransferring>>
        ELSE LET warned == /\ modalNftData # <<>>
                           /\ hasOwnedBefore(modalNftData[1].ownerHistory, toAddress)
             IN /\ Len(writeCalls) < MaxWrites
                /\ writeCalls' = Append(writeCalls,
                                        transfer(toAddress, TransferTokenId, warned) @@
                                          [sent |-> FALSE, at |-> 0])
                /\ error' = IF warned THEN "Warning: This address has already owned this NFT"
                            ELSE ""
                /\ isTransferring' = TRUE
                /\ txStatus' = "pending"
                /\ transferLog' = [log EXCEPT !.issued = 1, !.trace = <<"idle", "pending">>]
  /\ UNCHANGED <<toAddress, modalNftData>>
  /\ UNCHANGED <<now, chain, totalSupply, providerVars, leaderboardVars, collectionVars,
                 statsVars, rankingVars, actionVars, pacingVars>>

\* the await of transfer() returns (sent) or throws (threw): the status and,
\* in the catch, the message are set, and finally isTransferring is cleared
TransferSettles(outcome) ==
  /\ isTransferring
  /\ writeCalls' = [writeCalls EXCEPT ![Len(writeCalls)] =
                      [@ EXCEPT !.sent = (outcome = "sent"), !.at = NowMs]]
  /\ txStatus' = statusAfter(outcome)
  /\ error' = IF outcome = "sent" THEN error ELSE "Transfer failed"
  /\ isTransferring' = FALSE
  /\ transferLog' = [transferLog EXCEPT !.trace = Append(@, statusAfter(outcome))]
  /\ UNCHANGED <<toAddress, modalNftData>>
  /\ UNCHANGED <<now, chain, totalSupply, providerVars, leaderboardVars, collectionVars,
                 statsVars, rankingVars, actionVars, pacingVars>>

\* the contract states explored: the token of the dialog with a history of one
\* or two owners, or none recorded
TransferChains ==
  {c \in [Tokens -> {Ticking500, Ticking1500, Unrecorded}] :
     \A t \in Tokens : t # TransferTokenId => c[t] = Ticking1500}

InitTransfer ==
  /\ now = Epoch
  /\ chain \in TransferChains
  /\ totalSupply = MaxSupply
  /\ ProviderIdle
  /\ LeaderboardIdle
  /\ address \in {"", "0xA", "0xb"}
  /\ isOpen = FALSE
  /\ userNFTs = <<>>
  /\ lastOwnershipCheck = 0
  /\ isLoadingOwnership = FALSE
  /\ ownershipChecks = {}
  /\ resolved = [by |-> "none", for |-> ""]
  /\ TransferIdle
  /\ StatsIdle
  /\ RankingIdle
  /\ ActionsIdle
  /\ PacingIdle

NextTransfer ==
  \/ \E a \in RecipientInputs : SetToAddress(a)
  \/ ModalNftDataLoads
  \/ handleTransfer
  \/ \E outcome \in {"sent", "threw"} : TransferSettles(outcome)

SpecTransfer == InitTransfer /\ [][NextTransfer]_vars

\* ------------------------- the transfer dialog under the shared data provider
\* the account and token of the dialog, and the recipient typed into it
InitWrites ==
  /\ now = Epoch
  /\ chain \in LeaderboardChains
  /\ totalSupply = 0
  /\ ProviderIdle
  /\ LeaderboardIdle
  /\ address = "0xA"
  /\ isOpen = FALSE
  /\ userNFTs = <<>>
  /\ lastOwnershipCheck = 0
  /\ isLoadingOwnership = FALSE
  /\ ownershipChecks = {}
  /\ resolved = [by |-> "none", for |-> ""]
  /\ OthersIdle

NextWrites ==
  \/ Tick(MaxWritesElapsed) /\ UNCHANGED <<chain, totalSupply, providerVars, leaderboardVars, collectionVars, otherVars>>
  \/ \E n \in 1..MaxWritesSupply : LoadTotalSupply(n)
  \/ \E p \in passes, ok \in BOOLEAN : PassStep(p, ok)
  \/ \E p \in passes : PassFinish(p)
  \/ \E a \in {"0xb", "0xc"} : SetToAddress(a)
  \/ ModalNftDataLoads
  \/ handleTransfer
  \/ \E outcome \in {"sent", "threw"} : TransferSettles(outcome)

SpecWrites == InitWrites /\ [][NextWrites]_vars

\* ------------------------- OwnerPanel.tsx, part_006 and MintButton (part_005)
\* a write function of useBombandak was called by a handler: whether its
\* writeContract threw, and the message the handler left for the user, "" if none
actionCall(fn, by, outcome, message) ==
  [fn |-> fn, by |-> by, writes |-> 1, threw |-> outcome = "threw", message |-> message]

actionFrame ==
  UNCHANGED <<now, chain, totalSupply, providerVars, leaderboardVars, collectionVars,
              transferVars, statsVars, rankingVars, pacingVars>>

\* OwnerPanel.tsx: the Emergency Withdraw button
handleEmergencyWithdraw(outcome) ==
  /\ Len(actionCalls) < MaxActionCalls
  /\ ownerError' = IF outcome = "threw" THEN "Emergency withdraw failed" ELSE ""
  /\ ownerSuccess' = IF outcome = "threw" THEN ownerSuccess ELSE "Emergency withdraw completed!"
  /\ actionCalls' = Append(actionCalls,
                           actionCall("emergencyWithdraw", "handleEmergencyWithdraw",
                                      outcome, ownerError'))
  /\ UNCHANGED mintError
  /\ actionFrame

\* OwnerPanel.tsx: the Add to Reward Pool button, rewardAmount being the field
handleAddToRewardPool(rewardAmount, outcome) ==
  /\ IF rewardAmount <= 0
     THEN /\ ownerError' = "Please enter a valid amount greater than 0"
          /\ UNCHANGED <<ownerSuccess, actionCalls>>
     ELSE /\ Len(actionCalls) < MaxActionCalls
          /\ ownerError' = IF outcome = "threw" THEN "Failed to add to reward pool" ELSE ""
          /\ ownerSuccess' = IF outcome = "threw" THEN "" ELSE "Successfully added"
          /\ actionCalls' = Append(actionCalls,
                                   actionCall("addToRewardPool", "handleAddToRewardPool",
                                              outcome, ownerError'))
  /\ UNCHANGED mintError
  /\ actionFrame

\* OwnerPanel.tsx and part_006: the End Game button, whose onClick is the
\* hook's endGameAndDistribute itself; what it rethrows no handler catches
endGameAndDistribute(outcome) ==
  /\ Len(actionCalls) < MaxActionCalls
  /\ actionCalls' = Append(actionCalls,
                           actionCall("endGameAndDistribute", "onClick", outcome, ""))
  /\ UNCHANGED <<ownerError, ownerSuccess, mintError>>
  /\ actionFrame

\* part_006: the Emergency Withdraw button of the panel without an error state;
\* its catch only logs
handleEmergencyWithdraw6(outcome) ==
  /\ Len(actionCalls) < MaxActionCalls
  /\ actionCalls' = Append(actionCalls,
                           actionCall("emergencyWithdraw", "handleEmergencyWithdraw6",
                                      outcome, ""))
  /\ UNCHANGED <<ownerError, ownerSuccess, mintError>>
  /\ actionFrame

\* part_005: the Mint button, for an account that has not minted
handleMint(outcome) ==
  /\ IF address = ""
     THEN /\ mintError' = "Please connect your wallet first"
          /\ UNCHANGED actionCalls
     ELSE /\ Len(actionCalls) < MaxActionCalls
          /\ mintError' = IF outcome = "threw" THEN "Failed to mint" ELSE ""
          /\ actionCalls' = Append(actionCalls,
                                   actionCall("mint", "handleMint", outcome, mintError'))
  /\ UNCHANGED <<ownerError, ownerSuccess>>
  /\ actionFrame

InitActions ==
  /\ now = Epoch
  /\ chain \in LeaderboardChains
  /\ totalSupply = 0
  /\ ProviderIdle
  /\ LeaderboardIdle
  /\ address \in {"", "0xA"}
  /\ isOpen = FALSE
  /\ userNFTs = <<>>
  /\ lastOwnershipCheck = 0
  /\ isLoadingOwnership = FALSE
  /\ ownershipChecks = {}
  /\ resolved = [by |-> "none", for |-> ""]
  /\ OthersIdle

NextActions ==
  \/ \E outcome \in {"sent", "threw"} : handleEmergencyWithdraw(outcome)
  \/ \E rewardAmount \in {0, 1}, outcome \in {"sent", "threw"} :
       handleAddToRewardPool(rewardAmount, outcome)
  \/ \E outcome \in {"sent", "threw"} : endGameAndDistribute(outcome)
  \/ \E outcome \in {"sent", "threw"} : handleEmergencyWithdraw6(outcome)
  \/ \E outcome \in {"sent", "threw"} : handleMint(outcome)

SpecActions == InitActions /\ [][NextActions]_vars

\* ------------------- part_003 and part_004: the pacing of processNFTsSequentially
Delay3 == 100
Backoff3 == 1000
Delay4 == 50
Backoff4 == 100

\* the sleep of the try block before readContract, in milliseconds
sleepBeforeRead(variant) == IF variant = "part_003" THEN Delay3 ELSE Delay4

\* the sleep of the catch block, in milliseconds
sleepAfterFailure(variant) == IF variant = "part_003" THEN Backoff3 ELSE Backoff4

\* how long a getNFTData read can take to settle, in milliseconds
ReadDurations == {0, 30}

\* processNFTsSequentially(1, total) is called with no entry in the Map
PacingStarts(variant, total) ==
  /\ pacing.variant = "none"
  /\ pacing' = [variant |-> variant, total |-> total, i |-> 1, clock |-> 0, reads |-> <<>>]
  /\ UNCHANGED <<now, chain, totalSupply, providerVars, leaderboardVars, collectionVars,
                 transferVars, statsVars, rankingVars, actionVars>>

\* one iteration of the loop: the sleep, the read and, if it threw, the sleep
\* of the catch; clock is the time since the loop began
PacedRead(ok, took) ==
  /\ pacing.variant # "none"
  /\ pacing.i <= pacing.total
  /\ LET at == pacing.clock + sleepBeforeRead(pacing.variant)
         ended == at + took
     IN pacing' = [pacing EXCEPT
                     !.i = @ + 1,
                     !.clock = IF ok THEN ended ELSE ended + sleepAfterFailure(pacing.variant),
                     !.reads = Append(@, [tokenId |-> pacing.i, at |-> at, ended |-> ended,
                                          ok |-> ok])]
  /\ UNCHANGED <<now, chain, totalSupply, providerVars, leaderboardVars, collectionVars,
                 transferVars, statsVars, rankingVars, actionVars>>

InitPacing ==
  /\ now = Epoch
  /\ chain \in LeaderboardChains
  /\ totalSupply = 0
  /\ ProviderIdle
  /\ LeaderboardIdle
  /\ CollectionIdle
  /\ OthersIdle

NextPacing ==
  \/ \E variant \in {"part_003", "part_004"}, total \in 1..MaxPaced : PacingStarts(variant, total)
  \/ \E ok \in BOOLEAN, took \in ReadDurations : PacedRead(ok, took)

SpecPacing == InitPacing /\ [][NextPacing]_vars

\* --------------------------------------- GlobalStats.tsx, the first component
\* calculateGlobalStats as closed over (ts, ci, bal), up to its first await;
\* hook is what getChampionInfo has delivered when it is called
calculateGlobalStats(ts, ci, bal, hook) ==
  IF ts = 0
  THEN UNCHANGED <<statsIsLoading, statsPasses, statsPassSeq>>
  ELSE /\ statsPassSeq < MaxStatsPasses
       /\ statsIsLoading' = TRUE
       /\ statsPassSeq' = statsPassSeq + 1
       /\ statsPasses' = statsPasses \cup
            {[id |-> statsPassSeq + 1, total |-> ts, championInfo |-> ci,
              contractBalance |-> bal, currentTime |-> NowSec, next |-> 1,
              aliveCount |-> 0, deadCount |-> 0, totalTransferCount |-> 0,
              longestRealLifetime |-> 0, longestLivingId |-> 0, lifetimes |-> <<>>,
              hook |-> hook, resolved |-> {}]}

\* useEffect on [totalSupply, championInfo, contractBalance], after the render
\* of (ts, ci, bal)
statsEffect(ts, ci, bal) ==
  IF ts > 0
  THEN calculateGlobalStats(ts, ci, bal, ci)
  ELSE UNCHANGED <<statsIsLoading, statsPasses, statsPassSeq>>

\* the body of the loop for a token whose two reads returned
statsResolved(p) ==
  LET tokenId == p.next
      r == chain[tokenId]
      alive == r.isAlive /\ ~r.isDead /\ r.timeLeft > 0
      realLifetime == IF alive THEN p.currentTime - r.mintTime
                      ELSE IF p.championInfo # <<>> /\ p.championInfo[1] = tokenId
                      THEN p.championInfo[2]
                      ELSE r.expiryTime - r.mintTime
      longer == realLifetime > p.longestRealLifetime
  IN [p EXCEPT !.next = p.next + 1,
               !.aliveCount = IF alive THEN p.aliveCount + 1 ELSE p.aliveCount,
               !.deadCount = IF alive THEN p.deadCount ELSE p.deadCount + 1,
               !.lifetimes = IF alive THEN Append(p.lifetimes, r.timeLeft) ELSE p.lifetimes,
               !.longestRealLifetime = IF longer THEN realLifetime ELSE p.longestRealLifetime,
               !.longestLivingId = IF longer THEN tokenId ELSE p.longestLivingId,
               !.totalTransferCount = p.totalTransferCount + r.transferCount,
               !.resolved = p.resolved \cup
                              {[tokenId |-> tokenId, realLifetime |-> realLifetime]}]

\* the catch of the loop: a read threw
statsUnresolved(p) == [p EXCEPT !.next = p.next + 1, !.deadCount = p.deadCount + 1]

\* Math.round(sum / n) for a non-negative sum
roundedMean(sum, n) == (2 * sum + n) \div (2 * n)

\* the reads of token p.next settle
StatsReadSettles(p, ok) ==
  /\ p \in statsPasses
  /\ p.next <= p.total
  /\ statsPasses' = (statsPasses \ {p}) \cup
                      {IF ok THEN statsResolved(p) ELSE statsUnresolved(p)}
  /\ UNCHANGED <<stats, statsIsLoading, championInfo, contractBalance, statsPassSeq,
                 statsTimer, statsLog>>
  /\ UNCHANGED <<now, chain, totalSupply, providerVars, leaderboardVars, collectionVars,
                 transferVars, rankingVars, actionVars, pacingVars>>

\* the loop is over: the contract's champion if the closure holds one, the
\* average, setStats, and finally setIsLoading(false)
StatsFinish(p) ==
  /\ p \in statsPasses
  /\ p.next > p.total
  /\ LET contractChampion == p.championInfo # <<>> /\ p.championInfo[1] > 0
         averageLifetime == IF Len(p.lifetimes) > 0
                            THEN roundedMean(SumOf(p.lifetimes), Len(p.lifetimes))
                            ELSE 0
     IN stats' = [totalMinted |-> p.total,
                  totalAlive |-> p.aliveCount,
                  totalDead |-> p.deadCount,
                  totalTransfers |-> p.totalTransferCount,
                  averageLifetime |-> averageLifetime,
                  longestLiving |->
                    IF contractChampion
                    THEN [tokenId |-> p.championInfo[1], realLifetime |-> p.championInfo[2]]
                    ELSE [tokenId |-> p.longestLivingId,
                          realLifetime |-> p.longestRealLifetime],
                  rewardPool |-> p.contractBalance]
  /\ statsLog' = [id |-> p.id, champion |-> p.hook, resolved |-> p.resolved]
  /\ statsIsLoading' = FALSE
  /\ statsPasses' = statsPasses \ {p}
  /\ UNCHANGED <<championInfo, contractBalance, statsPassSeq, statsTimer>>
  /\ UNCHANGED <<now, chain, totalSupply, providerVars, leaderboardVars, collectionVars,
                 transferVars, rankingVars, actionVars, pacingVars>>

\* the getTotalSupply hook delivers a new value: the effect computes the
\* statistics and the interval is set again over this render
StatsTotalSupply(n) ==
  /\ n > totalSupply
  /\ totalSupply' = n
  /\ statsEffect(n, championInfo, contractBalance)
  /\ statsTimer' = [ts |-> n, ci |-> championInfo, bal |-> contractBalance, at |-> now]
  /\ UNCHANGED <<stats, championInfo, contractBalance, statsLog>>
  /\ UNCHANGED <<now, chain, providerVars, leaderboardVars, collectionVars, transferVars,
                 rankingVars, actionVars, pacingVars>>

\* the getChampionInfo hook delivers its value
ChampionInfoLoads(ci) ==
  /\ championInfo = <<>>
  /\ championInfo' = ci
  /\ statsEffect(totalSupply, ci, contractBalance)
  /\ UNCHANGED <<stats, contractBalance, statsTimer, statsLog>>
  /\ UNCHANGED <<now, chain, totalSupply, providerVars, leaderboardVars, collectionVars,
                 transferVars, rankingVars, actionVars, pacingVars>>

\* the useBalance hook delivers its value
BalanceLoads(b) ==
  /\ contractBalance = 0
  /\ contractBalance' = b
  /\ statsEffect(totalSupply, championInfo, b)
  /\ UNCHANGED <<stats, championInfo, statsTimer, statsLog>>
  /\ UNCHANGED <<now, chain, totalSupply, providerVars, leaderboardVars, collectionVars,
                 transferVars, rankingVars, actionVars, pacingVars>>

\* the 30 s interval fires: calculateGlobalStats of the render it was set in
IntervalFires ==
  /\ now > statsTimer.at
  /\ statsTimer' = [statsTimer EXCEPT !.at = now]
  /\ calculateGlobalStats(statsTimer.ts, statsTimer.ci, statsTimer.bal, championInfo)
  /\ UNCHANGED <<stats, championInfo, contractBalance, statsLog>>
  /\ UNCHANGED <<now, chain, totalSupply, providerVars, leaderboardVars, collectionVars,
                 transferVars, rankingVars, actionVars, pacingVars>>

\* the Refresh button, enabled while isLoading is false
StatsManualRefresh ==
  /\ ~statsIsLoading
  /\ calculateGlobalStats(totalSupply, championInfo, contractBalance, championInfo)
  /\ UNCHANGED <<stats, championInfo, contractBalance, statsTimer, statsLog>>
  /\ UNCHANGED <<now, chain, totalSupply, providerVars, leaderboardVars, collectionVars,
                 transferVars, rankingVars, actionVars, pacingVars>>

\* what getChampionInfo can deliver: no champion yet, or token 2 with its record
ChampionValues == {<<0, 0>>, <<2, 5000>>}

\* the contract states explored: token 1 ticking or burned, token 2 ticking or
\* out of time, every later token ticking
StatsChains ==
  {c \in [Tokens -> {Ticking500, Ticking1500, Expired, Exploded}] :
     /\ c[1] \in {Ticking500, Exploded}
     /\ c[2] \in {Ticking1500, Expired}
     /\ \A t \in Tokens : t > 2 => c[t] = Ticking1500}

InitStats ==
  /\ now = Epoch
  /\ chain \in StatsChains
  /\ totalSupply = 0
  /\ ProviderIdle
  /\ LeaderboardIdle
  /\ CollectionIdle
  /\ OthersIdle

NextStats ==
  \/ Tick(MaxStatsElapsed) /\ UNCHANGED <<chain, totalSupply, providerVars, leaderboardVars, collectionVars, otherVars>>
  \/ \E n \in 1..MaxStatsSupply : StatsTotalSupply(n)
  \/ \E ci \in ChampionValues : ChampionInfoLoads(ci)
  \/ BalanceLoads(5)
  \/ IntervalFires
  \/ StatsManualRefresh
  \/ \E p \in statsPasses, ok \in BOOLEAN : StatsReadSettles(p, ok)
  \/ \E p \in statsPasses : StatsFinish(p)

SpecStats == InitStats /\ [][NextStats]_vars

\* ------------------------------------------- the rankings of the leaderboards
\* a sort that leaves the array as it is
sortKept(s, keys) == s

\* Array.prototype.sort with the comparator (a, b) => key(b) - key(a): the
\* elements of s by descending key, equal keys in their order in s; keys[i] is
\* the key of s[i]
sortDescending(s, keys) ==
  LET before(i) == {j \in 1..Len(s) : keys[j] > keys[i] \/ (keys[j] = keys[i] /\ j < i)}
  IN [k \in 1..Len(s) |-> s[CHOOSE i \in 1..Len(s) : Cardinality(before(i)) = k - 1]]

\* Array.prototype.filter, kept being the indices the predicate keeps
filterWhere(s, kept) ==
  LET acc[i \in 0..Len(s)] ==
        IF i = 0 THEN <<>>
        ELSE IF i \in kept THEN Append(acc[i - 1], s[i])
        ELSE acc[i - 1]
  IN acc[Len(s)]

\* Array.prototype.slice(0, n)
slice(s, n) == SubSeq(s, 1, Min(n, Len(s)))

\* the indices of the entries the deaths filter keeps
deathsFilter(s) ==
  {i \in 1..Len(s) : s[i].isDead \/ ~s[i].isAlive \/ s[i].timeLeft <= 0}

\* Leaderboard.tsx: the entry fetchLeaderboardData pushes for a token
leaderboardTsxEntry(tokenId) ==
  LET r == chain[tokenId]
  IN [tokenId |-> tokenId,
      transferCount |-> r.transferCount,
      timeLeft |-> r.timeLeft,
      realLifetime |-> IF r.isAlive /\ ~r.isDead /\ r.timeLeft > 0
                       THEN NowSec - r.mintTime
                       ELSE r.expiryTime - r.mintTime,
      isAlive |-> r.isAlive,
      isDead |-> r.isDead,
      ownerHistory |-> r.ownerHistory,
      currentOwner |-> r.owner]

\* part_004 and the second Leaderboard of part_003: the entry pushed for a token
leaderboardPlainEntry(tokenId) ==
  LET r == chain[tokenId]
  IN [tokenId |-> tokenId,
      transferCount |-> r.transferCount,
      timeLeft |-> r.timeLeft,
      isAlive |-> r.isAlive,
      isDead |-> r.isDead,
      ownerHistory |-> r.ownerHistory]

\* the lists the variants hold once a pass has resolved every token
leaderboardTsx == [i \in 1..totalSupply |-> leaderboardTsxEntry(i)]
leaderboardPlain == [i \in 1..totalSupply |-> leaderboardPlainEntry(i)]
leaderboardShared == [i \in 1..totalSupply |-> fetchSingleNFTData(i)]

\* the keys the comparators read
transferCounts(s) == [i \in 1..Len(s) |-> s[i].transferCount]
realLifetimes(s) == [i \in 1..Len(s) |-> s[i].realLifetime]
timeLefts(s) == [i \in 1..Len(s) |-> s[i].timeLeft]

\* Leaderboard.tsx, the cached Leaderboard of part_003 and the shared-data
\* Leaderboard of ViewMyNFTs.tsx: getFilteredData
getFilteredData(list, tab) ==
  IF tab = "transfers"
  THEN slice(sortDescending(list, transferCounts(list)), TopN)
  ELSE IF tab = "longevity"
  THEN slice(sortDescending(list, realLifetimes(list)), TopN)
  ELSE LET dead == filterWhere(list, deathsFilter(list))
       IN slice(sortDescending(dead, realLifetimes(dead)), TopN)

\* part_004: getFilteredData
getFilteredData4(list, tab) ==
  IF tab = "transfers"
  THEN slice(sortDescending(list, transferCounts(list)), TopN)
  ELSE IF tab = "longevity"
  THEN LET ticking == filterWhere(list, {i \in 1..Len(list) :
                         list[i].isAlive /\ ~list[i].isDead /\ list[i].timeLeft > 0})
       IN slice(sortDescending(ticking, transferCounts(ticking)), TopN)
  ELSE LET dead == filterWhere(list, deathsFilter(list))
       IN slice(sortDescending(dead, transferCounts(dead)), TopN)

\* part_003, the second Leaderboard: getFilteredData
getFilteredData3(list, tab) ==
  IF tab = "transfers"
  THEN slice(sortDescending(list, transferCounts(list)), TopN3)
  ELSE IF tab = "longevity"
  THEN LET ticking == filterWhere(list, {i \in 1..Len(list) :
                         list[i].isAlive /\ list[i].timeLeft > 0})
       IN slice(sortDescending(ticking, timeLefts(ticking)), TopN3)
  ELSE LET dead == filterWhere(list, deathsFilter(list))
       IN slice(sortDescending(dead, transferCounts(dead)), TopN3)

\* the rows each variant renders
filteredDataTsx == getFilteredData(leaderboardTsx, activeTab)
filteredDataShared == getFilteredData(leaderboardShared, activeTab)
filteredData4 == getFilteredData4(leaderboardPlain, activeTab)
filteredData3 == getFilteredData3(leaderboardPlain, activeTab)

\* a tab button is clicked
setActiveTab(tab) ==
  /\ tab # activeTab
  /\ activeTab' = tab
  /\ UNCHANGED <<now, chain, totalSupply, providerVars, leaderboardVars, collectionVars,
                 transferVars, statsVars, actionVars, pacingVars>>

\* the getTotalSupply hook delivers a new value and the pass over the tokens
\* completes
RankingTotalSupply(n) ==
  /\ n > totalSupply
  /\ totalSupply' = n
  /\ UNCHANGED <<now, chain, providerVars, leaderboardVars, collectionVars, otherVars>>

\* the contract states explored
RankingChains == [1..MaxRanked -> {Ticking500, Ticking1500, Expired, Exploded}]

InitRanking ==
  /\ now = Epoch
  /\ chain \in RankingChains
  /\ totalSupply = 1
  /\ ProviderIdle
  /\ LeaderboardIdle
  /\ CollectionIdle
  /\ OthersIdle

NextRanking ==
  \/ \E tab \in {"transfers", "longevity", "deaths"} : setActiveTab(tab)
  \/ \E n \in 1..MaxRanked : RankingTotalSupply(n)

SpecRanking == InitRanking /\ [][NextRanking]_vars

\* ------------------------------------------------------------------ claims
\* C1: whenever statistics are published, totalAlive + totalDead equals
\* totalMinted.
C1_AliveDeadPartition ==
  globalStats.totalAlive + globalStats.totalDead = globalStats.totalMinted

\* C2: every path that classifies a token as alive uses
\* isAlive /\ ~isDead /\ timeLeft > 0 over the contract's values, none uses the
\* raw isAlive flag alone, and no published record is both alive and dead.
C2_EffectiveAliveEverywhere ==
  /\ \A i \in 1..Len(nftData) :
       LET nft == nftData[i]
           r == chain[nft.tokenId]
       IN /\ nft.isAlive <=> EffectiveAlive(r)
          /\ ~(nft.isAlive /\ nft.isDead)
          /\ (rowBadge(nft) = "Ticking") <=> EffectiveAlive(r)
  /\ \A t \in 1..totalSupply :
       /\ cardBadgeTicking(chain[t]) <=> EffectiveAlive(chain[t])
       /\ (cardBadgeText(chain[t]) = "ALIVE") <=> EffectiveAlive(chain[t])
       /\ cardOffersTransfer(chain[t]) <=> EffectiveAlive(chain[t])

\* the pass that published nftData ran over three tokens, tokens 1 and 3 were
\* read alive with 500 and 1500 seconds left, and the read of token 2 failed
C3_Scenario ==
  /\ published.total = 3
  /\ published.failed = {2}
  /\ chain[1] = Ticking500
  /\ chain[3] = Ticking1500

\* C3: in that scenario the statistics are totalMinted 3, totalAlive 2,
\* totalDead 1 and averageLifetime 1000.
C3_FailedReadCountsDead ==
  C3_Scenario =>
    /\ globalStats.totalMinted = 3
    /\ globalStats.totalAlive = 2
    /\ globalStats.totalDead = 1
    /\ globalStats.averageLifetime.num = 1000 * globalStats.averageLifetime.den

\* C4: a step of forceRefresh, its invocation or its resumption after the
\* refetches, taken while an aggregation pass is in flight starts no pass.
C4_ForceRefreshStartsNoSecondPass ==
  [][(continuations' # continuations /\ passes # {}) => passSeq' = passSeq]_vars

\* C5: once the manual refresh is asked for, a pass starts whatever the time
\* since the previous one, the pass attempts every token, and no entry that was
\* in the cache before the request is served to any pass.
C5_ManualRefreshRereads ==
  /\ leaderboardLog.manual.count > 0 => leaderboardLog.manual.started >= 1
  /\ \A p \in leaderboardPasses : p.servedOld = {}
  /\ leaderboardLog.lastPublish.servedOld = {}
  /\ leaderboardLog.lastPublish.forced =>
       leaderboardLog.lastPublish.attempted = 1..leaderboardLog.lastPublish.total

\* a refresh asked for less than the minimum interval after a pass completed,
\* whose pass has read every token again and published
C5_Witness ==
  /\ leaderboardLog.manual.within
  /\ leaderboardLog.lastPublish.forced
  /\ leaderboardLog.lastPublish.total >= 2
  /\ leaderboardLog.lastPublish.reads = leaderboardLog.lastPublish.total

\* an entry for token 5 fetched now
EntryForToken5 == [k \in {5} |-> [timestamp |-> NowMs]]

C7_NoEarlyPass == ~leaderboardLog.earlyRead

\* C8: a pass that starts with every token in the cache and unexpired issues
\* no read, and publishes the list the previous complete pass published.
C8_WarmPassIdempotent ==
  leaderboardLog.lastPublish.warm =>
    /\ leaderboardLog.lastPublish.reads = 0
    /\ leaderboardLog.lastPublish.rerun => leaderboardLog.lastPublish.same

\* a second pass over two tokens ran entirely from the cache
C8_Witness ==
  /\ leaderboardLog.lastPublish.warm
  /\ leaderboardLog.lastPublish.rerun
  /\ leaderboardLog.lastPublish.same
  /\ leaderboardLog.lastPublish.total >= 2

\* C9: a pass in which a read failed has still attempted every token up to its
\* total and publishes, in order, the entries of the tokens whose read did not
\* fail; publishing clears the loading flag unless a new pass starts at once.
C9_FailureDoesNotAbort ==
  LET lp == leaderboardLog.lastPublish
  IN lp.total > 0 =>
       /\ lp.attempted = 1..lp.total
       /\ {leaderboard[i].tokenId : i \in 1..Len(leaderboard)} = (1..lp.total) \ lp.failed
       /\ \A i, j \in 1..Len(leaderboard) :
            i < j => leaderboard[i].tokenId < leaderboard[j].tokenId
       /\ leaderboardPasses = {} => ~isLoading

\* a pass whose read of token 1 failed went on to token 2 and published it
C9_Witness ==
  /\ 1 \in leaderboardLog.lastPublish.failed
  /\ leaderboardLog.lastPublish.total >= 2
  /\ \E i \in 1..Len(leaderboard) : leaderboard[i].tokenId = 2

\* C10: the tokens resolved from the recorded owner histories are the tokens
\* that direct ownerOf reads resolve for the same address over the same
\* contract state.
C10_HistoryMatchesOwnerOf ==
  resolved.by = "history" => userNFTs = ownedByOwnerOf(resolved.for, {})

\* C11: ownership is resolved from the recorded histories exactly when every
\* record of nftData carries a non-empty ownerHistory; otherwise it is
\* resolved by ownerOf reads.
C11_HistoryOnlyWhenComplete ==
  LET complete == \A i \in 1..Len(nftData) : Len(nftData[i].ownerHistory) > 0
  IN /\ resolved.by = "history" => complete
     /\ resolved.by \in {"ownerOf", "ownerOfLossy"} => ~complete

\* C12: every transfer write call whose recipient appears, whatever the case,
\* in the token's ownerHistory was flagged by the dialog before it was issued.
C12_PreviousOwnerFlagged ==
  \A i \in 1..Len(writeCalls) :
    hasOwnedBefore(chain[writeCalls[i].tokenId].ownerHistory, writeCalls[i].to) =>
      writeCalls[i].warned

\* C13: the published averageLifetime is the mean of timeLeft over the records
\* that are alive (isAlive, not isDead, timeLeft > 0), and 0 when none is.
C13_AverageOverAliveOnly ==
  LET alive == {i \in 1..Len(nftData) :
                  nftData[i].isAlive /\ ~nftData[i].isDead /\ nftData[i].timeLeft > 0}
      left == [i \in 1..Len(nftData) |-> IF i \in alive THEN nftData[i].timeLeft ELSE 0]
      avg == globalStats.averageLifetime
  IN IF alive = {}
     THEN avg.num = 0
     ELSE avg.num * Cardinality(alive) = SumOf(left) * avg.den

\* C14: the realLifetime of every published leaderboard entry is
\* expiryTime - mintTime for a token that is not alive and, for a token that is,
\* the time since its mint at some moment of the session; it is never negative.
C14_RealLifetimeFromTimestamps ==
  \A i \in 1..Len(leaderboard) :
    LET e == leaderboard[i]
        r == chain[e.tokenId]
    IN /\ e.realLifetime >= 0
       /\ IF EffectiveAlive(r)
          THEN \E t \in Epoch..now : e.realLifetime = Max(0, (t * TickMs) \div 1000 - r.mintTime)
          ELSE e.realLifetime = Max(0, r.expiryTime - r.mintTime)

\* C15: the champion a statistics pass publishes is the one getChampionInfo
\* had delivered when the pass started, if it names a token; otherwise it is a
\* token of maximum realLifetime among the records the pass resolved, with that
\* realLifetime.
C15_ChampionFromContractOrMax ==
  LET ci == statsLog.champion
      best == stats.longestLiving
  IN statsLog.id > 0 =>
       IF ci # <<>> /\ ci[1] > 0
       THEN best = [tokenId |-> ci[1], realLifetime |-> ci[2]]
       ELSE statsLog.resolved # {} =>
              /\ best \in statsLog.resolved
              /\ \A rec \in statsLog.resolved : rec.realLifetime <= best.realLifetime

\* C16: in every leaderboard variant the hall-of-death rows are records of
\* tokens that are not alive (isAlive, not isDead, timeLeft > 0 fails), in
\* descending order of realLifetime.
C16_HallOfDeathByLifetime ==
  LET lifetimeOf(e) == fetchSingleNFTData(e.tokenId).realLifetime
      ranked(rows) ==
        /\ \A i \in 1..Len(rows) : ~EffectiveAlive(chain[rows[i].tokenId])
        /\ \A i, j \in 1..Len(rows) : i < j => lifetimeOf(rows[i]) >= lifetimeOf(rows[j])
  IN activeTab = "deaths" =>
       /\ ranked(filteredDataTsx)
       /\ ranked(filteredDataShared)
       /\ ranked(filteredData4)
       /\ ranked(filteredData3)

\* C17: the most-transfers rows are the records by descending transferCount,
\* cut to the first TopN: no row has more transfers than the row before it,
\* there are min(TopN, number of records) rows, each a record of the list,
\* and no record left out has more transfers than a row.
C17_MostTransfersTopN ==
  LET ranked(rows, list) ==
        /\ Len(rows) = Min(TopN, Len(list))
        /\ \A i, j \in 1..Len(rows) :
             i < j => /\ rows[i].transferCount >= rows[j].transferCount
                      /\ rows[i].tokenId # rows[j].tokenId
        /\ \A i \in 1..Len(rows) : \E k \in 1..Len(list) : list[k] = rows[i]
        /\ \A k \in 1..Len(list) :
             (\A i \in 1..Len(rows) : rows[i].tokenId # list[k].tokenId) =>
               \A i \in 1..Len(rows) : list[k].transferCount <= rows[i].transferCount
  IN activeTab = "transfers" =>
       /\ ranked(filteredDataTsx, leaderboardTsx)
       /\ ranked(filteredDataShared, leaderboardShared)
       /\ ranked(filteredData4, leaderboardPlain)

\* more records than TopN, the first with fewer transfers than the last, and a
\* record left out of the rows
C17_Witness ==
  /\ activeTab = "transfers"
  /\ Len(leaderboardTsx) > TopN
  /\ Len(filteredDataTsx) = TopN
  /\ leaderboardTsx[1].transferCount < leaderboardTsx[Len(leaderboardTsx)].transferCount
  /\ filteredDataTsx[1].tokenId # 1
  /\ \E k \in 1..Len(leaderboardShared) :
       \A i \in 1..Len(filteredDataShared) :
         filteredDataShared[i].tokenId # leaderboardShared[k].tokenId

\* C18: in every leaderboard variant the longevity rows are the first rows of
\* all resolved records, alive and dead, by descending realLifetime, records of
\* equal realLifetime in ascending token id order.
C18_LongevityStableOverAll ==
  LET lifetimeOf(e) == fetchSingleNFTData(e.tokenId).realLifetime
      ranked(rows, list, n) ==
        /\ Len(rows) = Min(n, Len(list))
        /\ \A i, j \in 1..Len(rows) :
             i < j => \/ lifetimeOf(rows[i]) > lifetimeOf(rows[j])
                      \/ /\ lifetimeOf(rows[i]) = lifetimeOf(rows[j])
                         /\ rows[i].tokenId < rows[j].tokenId
        /\ \A k \in 1..Len(list) :
             (\A i \in 1..Len(rows) : rows[i].tokenId # list[k].tokenId) =>
               \A i \in 1..Len(rows) : lifetimeOf(list[k]) <= lifetimeOf(rows[i])
  IN activeTab = "longevity" =>
       /\ ranked(filteredDataTsx, leaderboardTsx, TopN)
       /\ ranked(filteredDataShared, leaderboardShared, TopN)
       /\ ranked(filteredData4, leaderboardPlain, TopN)
       /\ ranked(filteredData3, leaderboardPlain, TopN3)

\* C19: once a write has succeeded, the aggregation data fetched before it is
\* no longer served: the provider's cache guard lets the next pass start.
C19_WriteInvalidatesCache ==
  \A i \in 1..Len(writeCalls) :
    (writeCalls[i].sent /\ totalSupply > 0 /\ lastRefresh < writeCalls[i].at) =>
      fetchAllStarts(totalSupply, lastRefresh)

\* C20: the isLoading flag the provider exposes is true exactly when the
\* first total supply read, the first reward pool read or an aggregation pass
\* is in flight, also when passes overlap.
C20_LoadingWhileInFlight ==
  isLoadingGlobal <=> (isLoadingTotalSupply \/ isLoadingRewardPool \/ passes # {})

\* C21: entries leave the per-token cache only when the user asks for a
\* refresh, and a pass that no manual refresh asked for never calls getNFTData
\* for a token whose entry is within its TTL when the call is made.
C21_CacheBypassedOnlyByUser ==
  /\ [][(\E t \in DOMAIN leaderboardCache : t \notin DOMAIN leaderboardCache') =>
          leaderboardLog'.manual.count > leaderboardLog.manual.count]_vars
  /\ [](~leaderboardLog.freshRead)

\* C22: every aggregation pass that starts eventually finishes and the loading
\* flag returns to false, also when a contract read never responds.  It holds
\* of NextProviderLive without ReadHangs and fails with it.
C22_PassEventuallyFinishes ==
  /\ \A id \in 1..MaxPasses :
       (\E p \in passes : p.id = id) ~> ~(\E p \in passes : p.id = id)
  /\ isLoadingNFTs ~> ~isLoadingNFTs

\* C23: every handler run issues at most one write call, and a write call that
\* threw has left a message for the user in the error state of the component
\* whose button started it.
C23_FailedWriteSurfaced ==
  \A i \in 1..Len(actionCalls) :
    /\ actionCalls[i].writes <= 1
    /\ actionCalls[i].threw => actionCalls[i].message # ""

\* C24: within one pass getNFTData is called at most once for each token: a
\* token whose read failed is behind the loop's position and is not read again.
C24_OneReadPerToken ==
  \A p \in leaderboardPasses :
    /\ \A i, j \in 1..Len(p.issued) : i < j => p.issued[i] < p.issued[j]
    /\ \A t \in p.failed :
         /\ t < p.next
         /\ Cardinality({i \in 1..Len(p.issued) : p.issued[i] = t}) = 1

\* the read of token 1 failed and the pass has called getNFTData for token 2
C24_Witness ==
  \E p \in leaderboardPasses :
    /\ 1 \in p.failed
    /\ p.issued = <<1, 2>>

C26_BackoffAfterFailure ==
  \A k \in 1..(Len(pacing.reads) - 1) :
    ~pacing.reads[k].ok =>
      /\ pacing.reads[k + 1].at - pacing.reads[k].ended >= 1000
      /\ pacing.reads[k + 1].at - pacing.reads[k].ended > sleepBeforeRead(pacing.variant)

\* C27: a pass never overwrites what a pass that started after it published.
C27_LaterPassWins ==
  [][(published'.id # published.id /\ published'.id # 0) =>
       published'.id > published.id]_vars

\* C28: lastRefresh grows only in a step in which a pass that has read all its
\* tokens publishes its records; a trigger that the cache guard turns away and
\* a pass that aborts leave nftData and lastRefresh as they were.
C28_RefreshOnlyOnPublish ==
  [][/\ lastRefresh' > lastRefresh =>
          \E p \in passes :
            /\ p.next > p.total
            /\ \A q \in passes' : q.id # p.id
            /\ nftData' = p.allNFTData
            /\ published'.id = p.id
     /\ (/\ passSeq' = passSeq
         /\ \/ totalSupply' # totalSupply
            \/ \E c \in continuations : c \notin continuations' /\ c.ts # 0) =>
          /\ nftData' = nftData
          /\ lastRefresh' = lastRefresh
     /\ \A p \in passes :
          (p.next <= p.total /\ \A q \in passes' : q.id # p.id) =>
            /\ nftData' = nftData
            /\ published' = published
            /\ lastRefresh' = lastRefresh]_vars

\* a pass over one token has published and the total supply has changed since,
\* within the cache duration: the trigger was turned away and no pass started
C28_Witness ==
  /\ passSeq = 1
  /\ passes = {}
  /\ published.id = 1
  /\ totalSupply > published.total
  /\ lastRefresh # 0
  /\ NowMs - lastRefresh < CACHE_DURATION

\* C29: a handleTransfer call whose recipient is empty, is not an address or is
\* the connected account in any letter case issues no write call, sets an error
\* message and leaves the status idle; no write call ever carries such a
\* recipient.
C29_InvalidRecipientRejected ==
  LET lower(s) == IF s = "0xA" THEN "0xa" ELSE s
      invalid(to, account) ==
        \/ to \in {"", "   ", "not-an-address"}
        \/ account # "" /\ lower(to) = lower(account)
  IN /\ (transferLog.trace # <<>> /\ invalid(transferLog.to, transferLog.account)) =>
          /\ transferLog.issued = 0
          /\ error \in {"Please enter a recipient address", "Invalid address format",
                         "Cannot transfer to yourself"}
          /\ txStatus = "idle"
          /\ ~isTransferring
     /\ \A i \in 1..Len(writeCalls) : ~invalid(writeCalls[i].to, address)

\* the account 0xA asked to transfer to 0xa and was refused, with no write
C29_Witness ==
  /\ transferLog.to = "0xa"
  /\ transferLog.account = "0xA"
  /\ error = "Cannot transfer to yourself"
  /\ txStatus = "idle"
  /\ writeCalls = <<>>

\* C30: the statuses a handleTransfer call sets are idle, then pending, then
\* confirming or failed; confirming is set only when the await of transfer()
\* returned without throwing; isTransferring is true only between the call of
\* transfer() and its settling.
C30_StatusPath ==
  /\ transferLog.trace \in {<<>>, <<"idle">>, <<"idle", "pending">>,
                            <<"idle", "pending", "confirming">>,
                            <<"idle", "pending", "failed">>}
  /\ transferLog.trace # <<>> => txStatus = Last(transferLog.trace)
  /\ txStatus = "confirming" => writeCalls[Len(writeCalls)].sent
  /\ isTransferring <=> transferLog.trace = <<"idle", "pending">>

\* a first transfer was sent and a second one threw: the dialog shows failed
\* and is no longer transferring
C30_Witness ==
  /\ Len(writeCalls) = 2
  /\ writeCalls[1].sent
  /\ transferLog.trace = <<"idle", "pending", "failed">>
  /\ txStatus = "failed"
  /\ ~isTransferring

====
